---- MODULE Spec2Model ----
(***************************************************************************)
(* Micro-Loan Underwriting Assistant (src/src/main.py).                    *)
(*                                                                         *)
(* The state is the SQLite database loans.db (tables users, loans,         *)
(* repayments, user_gamification), the wall clock, and the position and    *)
(* locals of each request handler (apply_loan, get_user_progress,          *)
(* record_repayment).  A handler is a sequence of steps, one per storage   *)
(* statement or clock read.  A connection's writes are pending until       *)
(* conn.commit(); conn.rollback() and conn.close() drop them.              *)
(*                                                                         *)
(* Amounts are in units of 0.01 (the tolerance of the amount match is one  *)
(* unit).  Dates are day numbers; the clock counts ticks (the resolution   *)
(* of int(datetime.now().timestamp())), TicksPerDay of them in a day.      *)
(* A feature vector is an abstract value; Score gives the percentage the   *)
(* fitted classifier returns for it.                                       *)
(***************************************************************************)
EXTENDS Integers, Sequences, FiniteSets, TLC

\* ----------------------------------------------------------------- bounds
MaxNow == 1            \* the clock stops after this tick
TicksPerDay == 1       \* clock ticks in a day
MaxLoans == 2          \* rows of loans
MaxRepayments == 1     \* rows of repayments
DeepRepayments == 7    \* rows of repayments in the single-borrower runs
ConcRepayments == 2    \* rows of repayments in the two-worker runs

\* -------------------------------------------------------- program constants
ApproveThreshold == 70
DueDays == 30
GraceDays == 1
Tolerance == 1
ApplyPoints == 50
OnTimePoints == 50
ConsistentStreak == 3
ConsistentBonus == 100
ReliableStreak == 5
ReliableBonus == 200

FirstApplication == "First Application"
ConsistentPayer == "Consistent Payer"
ReliableBorrower == "Reliable Borrower"

\* ------------------------------------------------------------ input domains
Users == {"u1", "u2"}
Workers == {1, 2}
Features == {1, 2}
BadDate == 0 - 1       \* matches ^\d{4}-\d{2}-\d{2}$ but is no calendar date

\* ------------------------------------------------------------------ helpers
Abs(x) == IF x < 0 THEN 0 - x ELSE x

Today(t) == t \div TicksPerDay

\* model.predict_proba(scaler.transform([features]))[0][1] * 100
Score(features) == IF features = 1 THEN 70 ELSE 71

\* a policy that would approve at the threshold
DecideAtThreshold(score) ==
    IF score >= ApproveThreshold THEN "approve" ELSE "deny"

Decide(score) == IF score > ApproveThreshold THEN "approve" ELSE "deny"

\* f"L{user_id}_{int(datetime.now().timestamp())}"
MakeLoanId(user_id, t) == <<user_id, t>>

\* (datetime.now() + timedelta(days=30)).strftime("%Y-%m-%d")
next_due_date(t) == Today(t) + DueDays

\* ",".join(badges): the stored text, one token per name, "," between names
RECURSIVE Join(_)
Join(badges) ==
    IF Len(badges) = 0 THEN <<>>
    ELSE IF Len(badges) = 1 THEN <<badges[1]>>
    ELSE <<badges[1], ",">> \o Join(Tail(badges))

\* text.split(","): the names between the separators; "" splits to [""]
SplitText(text) ==
    IF text = <<>> THEN <<"">>
    ELSE SelectSeq(text, LAMBDA tok : tok # ",")

\* text.split(",") if text else []
ParseBadges(text) == IF text # <<>> THEN SplitText(text) ELSE <<>>

Has(badges, b) == \E i \in 1 .. Len(badges) : badges[i] = b

\* ------------------------------------------------------------------- state
VARIABLES
    now,                \* datetime.now(), in ticks
    users,              \* table users: user_id -> features
    loans,              \* table loans: set of rows, key loan_id
    repayments,         \* table repayments: rows in repayment_id order
    user_gamification,  \* table user_gamification: user_id -> row
    req,                \* req[w]: the request worker w is handling
    granted             \* history: per user, how often a repay reached a
                        \* streak threshold and how often it granted the badge

vars == <<now, users, loans, repayments, user_gamification, req, granted>>

Ledger == [users |-> users, loans |-> loans, repayments |-> repayments,
           gam |-> user_gamification]

EmptyLedger == [users |-> <<>>, loans |-> {}, repayments |-> <<>>, gam |-> <<>>]

NoLoan == <<"", 0>>

\* the loan_id values a repay names: the stored keys and one that is not stored
LoanIds == {l.loan_id : l \in loans} \cup {NoLoan}

NoResp == [status_code |-> 0, detail |-> ""]

NoReq == [op |-> "none", pc |-> "idle", user_id |-> "", features |-> 0,
          amount |-> 0, loan_id |-> NoLoan, payment_date |-> 0,
          xfail |-> FALSE, score |-> 0, decision |-> "", badges |-> <<>>,
          due_date |-> 0, status |-> "", new_streak |-> 0, points |-> 0,
          new_score |-> 0, intx |-> FALSE, tx |-> EmptyLedger,
          named |-> "", pre |-> EmptyLedger, resp |-> NoResp]

NoGrants == [reached3 |-> 0, cp |-> 0, reached5 |-> 0, rb |-> 0]

init_db ==
    /\ users = <<>>
    /\ loans = {}
    /\ repayments = <<>>
    /\ user_gamification = <<>>

Init ==
    /\ now = 0
    /\ init_db
    /\ req = [w \in Workers |-> NoReq]
    /\ granted = [u \in Users |-> NoGrants]

\* ------------------------------------------------------------- connections
Free(w) == req[w].pc \in {"idle", "done"}

\* another connection holds the write lock of loans.db
Locked(w) == \E v \in Workers \ {w} : ~Free(v) /\ req[v].intx

\* what connection w reads: its own pending writes, else the committed tables
View(w) == IF req[w].intx THEN req[w].tx ELSE Ledger

\* a close that would commit what is pending
CommitOnClose(pending, committed) == pending

\* conn.close() (and conn.rollback()): pending writes are dropped
CloseConn(pending, committed) == committed

Install(db) ==
    /\ users' = db.users
    /\ loans' = db.loans
    /\ repayments' = db.repayments
    /\ user_gamification' = db.gam

\* the handler ends: its connection is closed, the response is sent
Finish(w, r, resp) ==
    /\ req' = [req EXCEPT ![w] =
                 [NoReq EXCEPT !.op = r.op, !.pc = "done", !.xfail = r.xfail,
                               !.intx = r.intx, !.named = r.named,
                               !.pre = r.pre, !.resp = resp]]

\* the handler ends without conn.commit()
Fail(w, r, resp) ==
    /\ Install(IF r.intx THEN CloseConn(r.tx, Ledger) ELSE Ledger)
    /\ Finish(w, r, resp)
    /\ UNCHANGED <<now, granted>>

Error(code, detail) == [status_code |-> code, detail |-> detail]

\* a write statement: pending on the connection, which takes the write lock
Write(r, pc, db) == [r EXCEPT !.pc = pc, !.intx = TRUE, !.tx = db]

Step(w, r) ==
    /\ req' = [req EXCEPT ![w] = r]
    /\ UNCHANGED <<now, users, loans, repayments, user_gamification, granted>>

Tick ==
    /\ now < MaxNow
    /\ now' = now + 1
    /\ UNCHANGED <<users, loans, repayments, user_gamification, req, granted>>

\* ------------------------------------------------------------ POST /loan/apply
InFlight(op) == Cardinality({v \in Workers : req[v].op = op /\ ~Free(v)})

\* the handler's except clauses: every exception leaves as a 500
ApplyExcept(e) == Error(500, e.detail)

ApplyBegin(w, U, F, A, maxLoans) ==
    /\ Free(w)
    /\ Cardinality(loans) + InFlight("apply") < maxLoans
    /\ \E u \in U, f \in F, a \in A, xf \in BOOLEAN :
         LET r == [NoReq EXCEPT !.op = "apply", !.pc = "a_first",
                                !.user_id = u, !.features = f, !.amount = a,
                                !.xfail = xf, !.score = Score(f),
                                !.decision = Decide(Score(f)),
                                !.pre = Ledger]
         IN  IF xf
             THEN Fail(w, r, ApplyExcept(Error(0, "explainer failed")))
             ELSE Step(w, r)

\* a check that would take every application for the first
AlwaysFirst(user_id) == TRUE

\* is_first_application: its own connection, so the committed table
is_first_application(user_id) ==
    Cardinality({l \in loans : l.user_id = user_id}) = 0

ApplyIsFirst(w) ==
    /\ req[w].pc = "a_first"
    /\ Step(w, [req[w] EXCEPT
                  !.pc = "a_id",
                  !.badges = IF is_first_application(req[w].user_id)
                             THEN <<FirstApplication>> ELSE <<>>])

ApplyLoanId(w) ==
    /\ req[w].pc = "a_id"
    /\ Step(w, [req[w] EXCEPT !.pc = "a_due",
                              !.loan_id = MakeLoanId(req[w].user_id, now)])

ApplyDueDate(w) ==
    /\ req[w].pc = "a_due"
    /\ Step(w, [req[w] EXCEPT !.pc = "a_user", !.due_date = next_due_date(now)])

\* INSERT OR REPLACE: the later row would win
InsertOrReplace(table, key, row) ==
    [k \in DOMAIN table \cup {key} |-> IF k = key THEN row ELSE table[k]]

\* INSERT OR IGNORE INTO users
InsertOrIgnore(table, key, row) ==
    IF key \in DOMAIN table THEN table ELSE table @@ (key :> row)

ApplyInsertUser(w) ==
    /\ req[w].pc = "a_user"
    /\ ~Locked(w)
    /\ LET r == req[w]
           db == View(w)
       IN  Step(w, Write(r, "a_loan",
                  [db EXCEPT !.users =
                      InsertOrIgnore(db.users, r.user_id, r.features)]))

LoanRow(r, t) ==
    [loan_id |-> r.loan_id, user_id |-> r.user_id, amount |-> r.amount,
     decision |-> r.decision, score |-> r.score,
     application_date |-> Today(t), due_date |-> r.due_date]

\* INSERT INTO loans: loan_id is the primary key
ApplyInsertLoan(w) ==
    /\ req[w].pc = "a_loan"
    /\ LET r == req[w]
           db == View(w)
       IN  IF \E l \in db.loans : l.loan_id = r.loan_id
           THEN Fail(w, r, ApplyExcept(Error(0, "UNIQUE constraint failed: loans.loan_id")))
           ELSE Step(w, Write(r, "a_gam",
                  [db EXCEPT !.loans = db.loans \cup {LoanRow(r, now)}]))

ZeroGam == [repayment_streak |-> 0, points_earned |-> 0, badges_earned |-> <<>>]

ApplyInsertGam(w) ==
    /\ req[w].pc = "a_gam"
    /\ LET r == req[w]
           db == View(w)
       IN  Step(w, Write(r, "a_upd",
                  [db EXCEPT !.gam = InsertOrIgnore(db.gam, r.user_id, ZeroGam)]))

\* UPDATE user_gamification SET points_earned = points_earned + ?,
\*                              badges_earned = ? WHERE user_id = ?
ApplyGamUpdate(row, points, badges) ==
    [row EXCEPT !.points_earned = row.points_earned + points,
                !.badges_earned = Join(badges)]

ApplyUpdateGam(w) ==
    /\ req[w].pc = "a_upd"
    /\ LET r == req[w]
           db == View(w)
       IN  Step(w, Write(r, "a_commit",
                  [db EXCEPT !.gam =
                      IF r.user_id \in DOMAIN db.gam
                      THEN [db.gam EXCEPT ![r.user_id] =
                              ApplyGamUpdate(db.gam[r.user_id], ApplyPoints,
                                             r.badges)]
                      ELSE db.gam]))

ApplyResponse(r) ==
    [status_code |-> 200, detail |-> "",
     user_id |-> r.user_id, loan_id |-> r.loan_id, decision |-> r.decision,
     score |-> r.score, explained |-> TRUE, points_earned |-> ApplyPoints,
     badges_earned |-> r.badges, due_date |-> r.due_date]

ApplyCommit(w) ==
    /\ req[w].pc = "a_commit"
    /\ Install(req[w].tx)
    /\ Finish(w, req[w], ApplyResponse(req[w]))
    /\ UNCHANGED <<now, granted>>

\* ----------------------------------------------------- POST /repayment/record
\* except sqlite3.Error / except Exception: every exception, the handler's own
\* HTTPException(400) and fetch_user_data's HTTPException(404) included,
\* leaves as a 500 whose detail quotes the cause
RepayExcept(e) == Error(500, e.detail)

\* a validation that would look for the loan only
InvalidLoanOnly(found, amount) == found = {}

\* not loan or abs(loan[0] - repayment.amount) > 0.01
InvalidLoanOrAmount(found, amount) ==
    \/ found = {}
    \/ \E l \in found : Abs(l.amount - amount) > Tolerance

\* a status without the day of grace
RepayStatusNoGrace(payment_date, due_date) ==
    IF payment_date <= due_date THEN "on-time" ELSE "late"

\* "on-time" if payment_date <= due_date + timedelta(days=1) else "late"
RepayStatus(payment_date, due_date) ==
    IF payment_date <= due_date + GraceDays THEN "on-time" ELSE "late"

\* what a repay names: no stored loan ("unknown"), a stored loan whose
\* principal its amount misses by more than the tolerance ("mismatch"), or a
\* stored loan and its principal ("match"); kept with the request's outcome
Named(stored, loan_id, amount) ==
    IF ~ \E l \in stored : l.loan_id = loan_id THEN "unknown"
    ELSE IF \E l \in stored : /\ l.loan_id = loan_id
                               /\ (l.amount - amount > Tolerance
                                   \/ amount - l.amount > Tolerance)
    THEN "mismatch"
    ELSE "match"

\* the request arrives and its first statement, the SELECT of the loan, runs
RepayBegin(w, U, L, D, A, maxRepayments) ==
    /\ Free(w)
    /\ Len(repayments) + InFlight("repay") < maxRepayments
    /\ \E u \in U, l \in L, d \in D, a \in A :
         LET r == [NoReq EXCEPT !.op = "repay", !.pc = "r_gam",
                                !.user_id = u, !.loan_id = l,
                                !.payment_date = d, !.amount = a,
                                !.named = Named(loans, l, a),
                                !.pre = Ledger]
             found == {row \in loans : row.loan_id = l}
         IN  IF InvalidLoanOrAmount(found, a)
             THEN Fail(w, r, RepayExcept(Error(400, "Invalid loan or amount")))
             ELSE IF d = BadDate
             THEN Fail(w, r, RepayExcept(Error(0, "ValueError")))
             ELSE LET loan == CHOOSE row \in found : TRUE
                  IN  Step(w, [r EXCEPT
                         !.status = RepayStatus(d, loan.due_date)])

\* a transition in which a late repayment would keep the streak
AdvanceNoReset(r, gamification) ==
    LET new_streak == IF r.status = "on-time"
                      THEN gamification.repayment_streak + 1
                      ELSE gamification.repayment_streak
        points == IF r.status = "on-time"
                  THEN gamification.points_earned + OnTimePoints
                  ELSE gamification.points_earned
    IN  [r EXCEPT !.new_streak = new_streak, !.points = points,
                  !.badges = ParseBadges(gamification.badges_earned)]

\* lines 254-262: the next streak, points and badges
Advance(r, gamification) ==
    LET new_streak == IF r.status = "on-time"
                      THEN gamification.repayment_streak + 1 ELSE 0
        points == IF r.status = "on-time"
                  THEN gamification.points_earned + OnTimePoints
                  ELSE gamification.points_earned
        badges == ParseBadges(gamification.badges_earned)
        cp == new_streak = ConsistentStreak /\ ~Has(badges, ConsistentPayer)
        badges1 == IF cp THEN Append(badges, ConsistentPayer) ELSE badges
        points1 == IF cp THEN points + ConsistentBonus ELSE points
        rb == new_streak = ReliableStreak /\ ~Has(badges1, ReliableBorrower)
        badges2 == IF rb THEN Append(badges1, ReliableBorrower) ELSE badges1
        points2 == IF rb THEN points1 + ReliableBonus ELSE points1
    IN  [r EXCEPT !.new_streak = new_streak, !.points = points2,
                  !.badges = badges2]

RepaySelectGam(w) ==
    /\ req[w].pc = "r_gam"
    /\ LET r == req[w]
           gam == View(w).gam
       IN  IF r.user_id \in DOMAIN gam
           THEN Step(w, [Advance(r, gam[r.user_id]) EXCEPT !.pc = "r_user"])
           ELSE Step(w, [r EXCEPT !.pc = "r_insgam"])

\* INSERT INTO user_gamification: user_id is the primary key
RepayInsertGam(w) ==
    /\ req[w].pc = "r_insgam"
    /\ ~Locked(w)
    /\ LET r == req[w]
           db == View(w)
       IN  IF r.user_id \in DOMAIN db.gam
           THEN Fail(w, r, RepayExcept(Error(0, "UNIQUE constraint failed: user_gamification.user_id")))
           ELSE Step(w, Write(Advance(r, ZeroGam), "r_user",
                  [db EXCEPT !.gam = db.gam @@ (r.user_id :> ZeroGam)]))

\* a score recalculation that would not look the user up
RepaySkipUser(w) ==
    /\ req[w].pc = "r_user"
    /\ Step(w, [req[w] EXCEPT !.pc = "r_insrep"])

\* fetch_user_data: its own connection, so the committed table
RepayFetchUser(w) ==
    /\ req[w].pc = "r_user"
    /\ LET r == req[w]
       IN  IF r.user_id \notin DOMAIN users
           THEN Fail(w, r, RepayExcept(Error(404, "User not found")))
           ELSE Step(w, [r EXCEPT !.pc = "r_insrep",
                                  !.new_score = Score(users[r.user_id])])

RepaymentRow(r) ==
    [user_id |-> r.user_id, loan_id |-> r.loan_id,
     payment_date |-> r.payment_date, amount |-> r.amount,
     status |-> r.status]

RepayInsertRepayment(w) ==
    /\ req[w].pc = "r_insrep"
    /\ ~Locked(w)
    /\ LET r == req[w]
           db == View(w)
       IN  Step(w, Write(r, "r_upd",
                  [db EXCEPT !.repayments = Append(db.repayments,
                                                   RepaymentRow(r))]))

\* UPDATE user_gamification SET repayment_streak = ?, points_earned = ?,
\*                              badges_earned = ? WHERE user_id = ?
RepayGamUpdate(r) ==
    [repayment_streak |-> r.new_streak, points_earned |-> r.points,
     badges_earned |-> Join(r.badges)]

RepayUpdateGam(w) ==
    /\ req[w].pc = "r_upd"
    /\ LET r == req[w]
           db == View(w)
       IN  Step(w, Write(r, "r_commit",
                  [db EXCEPT !.gam =
                      IF r.user_id \in DOMAIN db.gam
                      THEN [db.gam EXCEPT ![r.user_id] = RepayGamUpdate(r)]
                      ELSE db.gam]))

\* lines 282-291
RepayResponse(r) ==
    [status_code |-> 200, detail |-> "",
     user_id |-> r.user_id, loan_id |-> r.loan_id, status |-> r.status,
     new_repayment_streak |-> r.new_streak,
     points_earned |-> IF r.status = "on-time" THEN OnTimePoints ELSE 0,
     badges_earned |-> IF r.new_streak = ConsistentStreak
                       THEN <<ConsistentPayer>>
                       ELSE IF r.new_streak = ReliableStreak
                       THEN <<ReliableBorrower>> ELSE <<>>,
     new_score |-> r.new_score]

StoredBadges(gam, u) ==
    IF u \in DOMAIN gam THEN ParseBadges(gam[u].badges_earned) ELSE <<>>

StoredStreak(gam, u) == IF u \in DOMAIN gam THEN gam[u].repayment_streak ELSE 0

StoredPoints(gam, u) == IF u \in DOMAIN gam THEN gam[u].points_earned ELSE 0

Bump(n, yes) == IF yes /\ n < 2 THEN n + 1 ELSE n

\* history of the grants a committed repay makes to the stored state
Granted(g, u, before, after) ==
    LET new(b) == ~Has(StoredBadges(before, u), b) /\ Has(StoredBadges(after, u), b)
        to(k) == StoredStreak(after, u) = k
    IN  [g EXCEPT ![u] =
           [reached3 |-> Bump(g[u].reached3, to(ConsistentStreak)),
            cp |-> Bump(g[u].cp, new(ConsistentPayer)),
            reached5 |-> Bump(g[u].reached5, to(ReliableStreak)),
            rb |-> Bump(g[u].rb, new(ReliableBorrower))]]

RepayCommit(w) ==
    /\ req[w].pc = "r_commit"
    /\ Install(req[w].tx)
    /\ granted' = Granted(granted, req[w].user_id, user_gamification,
                          req[w].tx.gam)
    /\ Finish(w, req[w], RepayResponse(req[w]))
    /\ UNCHANGED now

\* ------------------------------------------------- GET /user/progress/{user_id}
ProgressBegin(w, U) ==
    /\ Free(w)
    /\ \E u \in U :
         LET r == [NoReq EXCEPT !.op = "progress", !.pc = "p_gam",
                                !.user_id = u,
                                !.named = IF \E k \in DOMAIN users : k = u
                                          THEN "user" ELSE "nouser",
                                !.pre = Ledger]
         IN  IF u \notin DOMAIN users
             THEN Fail(w, r, Error(404, "User not found"))
             ELSE Step(w, [r EXCEPT !.features = users[u]])

ProgressSelectGam(w) ==
    /\ req[w].pc = "p_gam"
    /\ LET r == req[w]
           gam == View(w).gam
           gamification_data == IF r.user_id \in DOMAIN gam
                                THEN gam[r.user_id] ELSE ZeroGam
       IN  Step(w, [r EXCEPT
              !.pc = "p_reps",
              !.new_streak = gamification_data.repayment_streak,
              !.points = gamification_data.points_earned,
              !.badges = ParseBadges(gamification_data.badges_earned)])

\* a history that would not select by user
ProgressMapAll(rows, user_id) ==
    [i \in 1 .. Len(rows) |->
       [date |-> rows[i].payment_date, status |-> rows[i].status,
        amount |-> rows[i].amount]]

ProgressMap(rows, user_id) ==
    LET mine == SelectSeq(rows, LAMBDA row : row.user_id = user_id)
    IN  [i \in 1 .. Len(mine) |->
           [date |-> mine[i].payment_date, status |-> mine[i].status,
            amount |-> mine[i].amount]]

ProgressResponse(r, rows) ==
    [status_code |-> 200, detail |-> "", user_id |-> r.user_id,
     alternative_data |-> r.features, repayment_streak |-> r.new_streak,
     points_earned |-> r.points, badges_earned |-> r.badges,
     progress_map |-> ProgressMap(rows, r.user_id)]

ProgressSelectRepayments(w) ==
    /\ req[w].pc = "p_reps"
    /\ Fail(w, req[w], ProgressResponse(req[w], View(w).repayments))

\* ------------------------------------------------------------ storage errors
StatementPcs == {"a_first", "a_user", "a_loan", "a_gam", "a_upd", "a_commit",
                 "r_gam", "r_insgam", "r_user", "r_insrep", "r_upd",
                 "r_commit", "p_gam", "p_reps"}

\* sqlite3.Error from a statement or from conn.commit(): rollback, 500
StorageError(w) ==
    /\ req[w].pc \in StatementPcs
    /\ Fail(w, req[w], Error(500, "Database error"))

\* ---------------------------------------------------------- specifications
Steps(w) ==
    \/ ApplyIsFirst(w) \/ ApplyLoanId(w) \/ ApplyDueDate(w)
    \/ ApplyInsertUser(w) \/ ApplyInsertLoan(w) \/ ApplyInsertGam(w)
    \/ ApplyUpdateGam(w) \/ ApplyCommit(w)
    \/ RepaySelectGam(w) \/ RepayInsertGam(w)
    \/ RepayFetchUser(w) \/ RepayInsertRepayment(w) \/ RepayUpdateGam(w)
    \/ RepayCommit(w)
    \/ ProgressSelectGam(w) \/ ProgressSelectRepayments(w)
    \/ StorageError(w)

LoanAmounts == {100}
RepayAmounts == {100, 102}
EdgeAmounts == {101, 102}   \* off the principal by the tolerance, and by more
PayDates == {31, 32, BadDate}

\* one worker: the handlers are coroutines that never await, so one process
\* runs each request to completion before it takes the next
Next ==
    \/ Tick
    \/ ApplyBegin(1, Users, Features, LoanAmounts, MaxLoans)
    \/ RepayBegin(1, Users, LoanIds, PayDates, EdgeAmounts, MaxRepayments)
    \/ ProgressBegin(1, Users)
    \/ Steps(1)

Spec == Init /\ [][Next]_vars

\* one worker and one borrower, "u1", whose first loan is repaid many times
Borrower == {"u1"}
FirstLoan == {MakeLoanId("u1", 0), NoLoan}
DeepDates == {31, 33}

NextDeep ==
    \/ Tick
    \/ ApplyBegin(1, Borrower, {1}, LoanAmounts, MaxLoans)
    \/ RepayBegin(1, Users, FirstLoan, DeepDates, RepayAmounts, DeepRepayments)
    \/ ProgressBegin(1, Borrower)
    \/ Steps(1)

SpecDeep == Init /\ [][NextDeep]_vars

\* two workers (two server processes on the same loans.db): their steps
\* interleave, the write lock is the only thing that orders them
NextConc ==
    \/ Tick
    \/ \E w \in Workers :
         \/ ApplyBegin(w, Borrower, {1}, LoanAmounts, MaxLoans)
         \/ RepayBegin(w, Users, FirstLoan, {31}, {100}, ConcRepayments)
         \/ ProgressBegin(w, Borrower)
         \/ Steps(w)

SpecConc == Init /\ [][NextConc]_vars

\* ------------------------------------------------------------------ claims
Done(w, op) == req[w].op = op /\ req[w].pc = "done"

Ok(w) == req[w].resp.status_code = 200

RowsOf(rows, u) == SelectSeq(rows, LAMBDA row : row.user_id = u)

OnTimeRows(rows, u) ==
    SelectSeq(rows, LAMBDA row : row.user_id = u /\ row.status = "on-time")

LoansOf(rows, u) == {l \in rows : l.user_id = u}

\* the on-time rows at the end of a history, back to its last late row
RECURSIVE TrailingOnTime(_)
TrailingOnTime(rows) ==
    IF rows = <<>> THEN 0
    ELSE IF rows[Len(rows)].status = "on-time"
    THEN 1 + TrailingOnTime(SubSeq(rows, 1, Len(rows) - 1))
    ELSE 0

Rejectable(w) == req[w].named \in {"unknown", "mismatch"}

\* C1: for every user, "Consistent Payer" (+100) is granted to the stored
\* state exactly once, at the first repay that brings the streak to 3, and
\* "Reliable Borrower" (+200) exactly once, at the first that brings it to 5.
C1_GrantedExactlyOnce ==
    \A u \in Users :
        /\ granted[u].cp = (IF granted[u].reached3 > 0 THEN 1 ELSE 0)
        /\ granted[u].rb = (IF granted[u].reached5 > 0 THEN 1 ELSE 0)

\* C2: a badge in a user's stored badge set stays in it through every later
\* apply and repay.
C2_BadgesNeverLost ==
    [][\A u \in Users :
         \A b \in {FirstApplication, ConsistentPayer, ReliableBorrower} :
            Has(StoredBadges(user_gamification, u), b)
                => Has(StoredBadges(user_gamification', u), b)]_vars

\* C3: in every committed state a user's stored streak is the number of
\* on-time repayments recorded for the user since the last late one.
C3_StreakCountsOnTime ==
    \A u \in Users :
        StoredStreak(user_gamification, u) = TrailingOnTime(RowsOf(repayments, u))

C3_Witness ==
    /\ StoredStreak(user_gamification, "u1") = 2
    /\ Len(RowsOf(repayments, "u1")) = 5
    /\ Cardinality(loans) = 2
    /\ \E i \in 1 .. 3 : RowsOf(repayments, "u1")[i].status = "late"

\* C4: no apply with valid input fails because of its loan key.
C4_NoLoanKeyFailure ==
    \A w \in Workers :
        Done(w, "apply")
            => req[w].resp.detail # "UNIQUE constraint failed: loans.loan_id"

\* C5: two applies of one user never both see no prior loan, so at most one
\* of them is granted "First Application".
C5_OneFirstApplication ==
    \A v, w \in Workers :
        (/\ v # w
         /\ Done(v, "apply") /\ Ok(v)
         /\ Done(w, "apply") /\ Ok(w)
         /\ req[v].resp.user_id = req[w].resp.user_id)
            => ~ (/\ Has(req[v].resp.badges_earned, FirstApplication)
                  /\ Has(req[w].resp.badges_earned, FirstApplication))

\* C6: requests of one user are serialized: the stored state is the one some
\* serial order gives, so every committed on-time repay has advanced the
\* streak and every committed apply and on-time repay has added its 50 points.
C6_Serialized ==
    \A u \in Users :
        /\ TrailingOnTime(RowsOf(repayments, u)) = StoredStreak(user_gamification, u)
        /\ StoredPoints(user_gamification, u)
             >= ApplyPoints * Cardinality(LoansOf(loans, u))
                + OnTimePoints * Len(OnTimeRows(repayments, u))

\* C7: a repay of an unknown loan, or of an amount off the principal by more
\* than 0.01, is rejected and leaves every table as it was.
C7_RejectedRepayChangesNothing ==
    \A w \in Workers :
        (Done(w, "repay") /\ Rejectable(w)) => ~Ok(w) /\ Ledger = req[w].pre

C7_Witness ==
    /\ Done(1, "repay")
    /\ req[1].named = "mismatch"
    /\ ~Ok(1)
    /\ Ledger = req[1].pre

\* C8: a request's writes are all-or-nothing: a request that fails leaves the
\* tables as they were before it; one that succeeds has made all its writes.
C8_AllOrNothing ==
    \A w \in Workers :
        /\ (req[w].pc = "done" /\ ~Ok(w)) => Ledger = req[w].pre
        /\ (Done(w, "apply") /\ Ok(w)) =>
              /\ req[w].resp.user_id \in DOMAIN users
              /\ req[w].resp.user_id \in DOMAIN user_gamification
              /\ \E l \in loans \ req[w].pre.loans :
                    l.loan_id = req[w].resp.loan_id
        /\ (Done(w, "repay") /\ Ok(w)) =>
              /\ Len(repayments) = Len(req[w].pre.repayments) + 1
              /\ StoredStreak(user_gamification, req[w].resp.user_id)
                    = req[w].resp.new_repayment_streak

\* a repay that fails after its INSERT INTO user_gamification was issued
C8_Witness ==
    /\ Done(1, "repay")
    /\ req[1].resp.detail = "User not found"
    /\ req[1].intx
    /\ Ledger = req[1].pre
    /\ loans # {}

\* C9: an apply whose explainer fails still succeeds and records the loan.
C9_ExplainerNonFatal ==
    \A w \in Workers :
        (Done(w, "apply") /\ req[w].xfail)
            => /\ Ok(w)
               /\ loans # req[w].pre.loans

\* C10: a repay of an unknown loan or a mismatching amount fails with the
\* client error (400); the internal error (500) is for other failures.
C10_InvalidInputIs400 ==
    \A w \in Workers :
        (/\ Done(w, "repay")
         /\ Rejectable(w)
         /\ req[w].resp.detail # "Database error")
            => req[w].resp.status_code = 400


Range(seq) == {seq[i] : i \in 1 .. Len(seq)}

\* C11: every stored loan is due exactly 30 days after its application date,
\* also when the clock passes midnight while the apply is processed.
C11_DueThirtyDaysAfterApplication ==
    \A l \in loans : l.due_date = l.application_date + 30

\* C12: an accepted repay is recorded and returned on-time exactly when its
\* payment date is at most one day after the due date of the loan it names.
C12_OnTimeWithinOneDay ==
    /\ \A row \in Range(repayments) :
          \E l \in loans :
             /\ l.loan_id = row.loan_id
             /\ row.status \in {"on-time", "late"}
             /\ (row.status = "on-time") <=> (row.payment_date <= l.due_date + 1)
    /\ \A w \in Workers :
          (Done(w, "repay") /\ Ok(w) /\ Len(repayments) = Len(req[w].pre.repayments) + 1)
             => req[w].resp.status = repayments[Len(repayments)].status

\* paid on the day after the due date: on-time
C12_Witness ==
    /\ Done(1, "repay") /\ Ok(1)
    /\ req[1].resp.status = "on-time"
    /\ \E row \in Range(repayments) :
          \E l \in loans : /\ l.loan_id = row.loan_id
                           /\ row.payment_date = l.due_date + 1

\* C13: in every apply response and stored loan the decision is approve
\* exactly when the score is above 70, and the score is within 0..100.
C13_ApproveIffAboveSeventy ==
    /\ \A l \in loans :
          /\ (l.decision = "approve") <=> (l.score > 70)
          /\ l.decision \in {"approve", "deny"}
          /\ l.score >= 0 /\ l.score <= 100
    /\ \A w \in Workers :
          (Done(w, "apply") /\ Ok(w)) =>
             /\ (req[w].resp.decision = "approve") <=> (req[w].resp.score > 70)
             /\ req[w].resp.score >= 0 /\ req[w].resp.score <= 100

\* a score of exactly 70 was denied
C13_Witness ==
    /\ Done(1, "apply") /\ Ok(1)
    /\ req[1].resp.score = 70 /\ req[1].resp.decision = "deny"
    /\ \E l \in loans : l.score = 70 /\ l.decision = "deny"

\* C14: the features stored for a user are those of the first successful
\* apply; no later step changes or removes them.
C14_FirstFeaturesWin ==
    [][\A u \in DOMAIN users :
         /\ \E k \in DOMAIN users' : k = u
         /\ users'[u] = users[u]]_vars

\* the second apply of u1 came with other features than the stored ones
C14_Witness ==
    /\ Done(1, "apply") /\ Ok(1)
    /\ req[1].resp.user_id = "u1"
    /\ \E k \in DOMAIN req[1].pre.users : k = "u1"
    /\ \E k \in DOMAIN users : k = "u1"
    /\ req[1].resp.score # Score(users["u1"])

\* C15: applies run one after another: each successful apply adds exactly
\* 50 to the stored points, and its response lists "First Application"
\* exactly when the user had no stored loan before it.
C15_FiftyPointsAndFirstBadge ==
    \A w \in Workers :
        (Done(w, "apply") /\ Ok(w)) =>
           LET u == req[w].resp.user_id
           IN  /\ StoredPoints(user_gamification, u)
                     = StoredPoints(req[w].pre.gam, u) + 50
               /\ req[w].resp.points_earned = 50
               /\ Has(req[w].resp.badges_earned, FirstApplication)
                     <=> LoansOf(req[w].pre.loans, u) = {}
               /\ Range(req[w].resp.badges_earned) \subseteq {FirstApplication}

\* a second apply: 50 more points, no badge in the response
C15_Witness ==
    /\ Done(1, "apply") /\ Ok(1)
    /\ LoansOf(req[1].pre.loans, req[1].resp.user_id) # {}
    /\ req[1].resp.badges_earned = <<>>
    /\ StoredPoints(user_gamification, req[1].resp.user_id) = 100

\* C16: progress is read-only; it fails with NotFound when the user has no
\* User row, else it returns the stored features, streak, points and badge
\* list and every repayment recorded for the user.
C16_ProgressReadOnly ==
    \A w \in Workers :
        Done(w, "progress") =>
           /\ Ledger = req[w].pre
           /\ (req[w].named = "nouser" /\ req[w].resp.detail # "Database error")
                 => req[w].resp.status_code = 404
           /\ (req[w].named = "user" /\ req[w].resp.detail # "Database error")
                 => /\ Ok(w)
                    /\ LET u == req[w].resp.user_id
                           mine == RowsOf(repayments, u)
                       IN  /\ \E k \in DOMAIN users : k = u
                           /\ req[w].resp.alternative_data = users[u]
                           /\ req[w].resp.repayment_streak
                                 = StoredStreak(user_gamification, u)
                           /\ req[w].resp.points_earned
                                 = StoredPoints(user_gamification, u)
                           /\ req[w].resp.badges_earned
                                 = StoredBadges(user_gamification, u)
                           /\ Len(req[w].resp.progress_map) = Len(mine)
                           /\ \A i \in 1 .. Len(mine) :
                                 /\ req[w].resp.progress_map[i].date = mine[i].payment_date
                                 /\ req[w].resp.progress_map[i].status = mine[i].status
                                 /\ req[w].resp.progress_map[i].amount = mine[i].amount

\* progress of a user who has a badge and a repayment
C16_Witness ==
    /\ Done(1, "progress") /\ Ok(1)
    /\ Len(req[1].resp.progress_map) = 1
    /\ req[1].resp.badges_earned # <<>>
    /\ Ledger = req[1].pre

\* C17: in every committed state the users with a gamification row are the
\* users with a User row, every loan's user has a User row, and every
\* repayment names a stored loan and a stored user.
C17_ReferentiallyConsistent ==
    /\ DOMAIN user_gamification = DOMAIN users
    /\ \A l \in loans : l.user_id \in DOMAIN users
    /\ \A row \in Range(repayments) :
          /\ \E l \in loans : l.loan_id = row.loan_id
          /\ row.user_id \in DOMAIN users

C17_Witness ==
    /\ DOMAIN users = {"u1", "u2"}
    /\ Cardinality(loans) = 2
    /\ Len(repayments) = 1

\* C18: the badges_earned of a repay response are exactly the badges the
\* repay added to the stored set (stored after minus stored before).
C18_BadgesEarnedIsDelta ==
    \A w \in Workers :
        (Done(w, "repay") /\ Ok(w)) =>
           LET u == req[w].resp.user_id
           IN  Range(req[w].resp.badges_earned)
                  = Range(StoredBadges(user_gamification, u))
                       \ Range(StoredBadges(req[w].pre.gam, u))

\* C19: the points_earned of a repay response is the stored points after
\* the repay minus the stored points before it.
C19_PointsEarnedIsDelta ==
    \A w \in Workers :
        (Done(w, "repay") /\ Ok(w)) =>
           LET u == req[w].resp.user_id
           IN  req[w].resp.points_earned
                  = StoredPoints(user_gamification, u)
                       - StoredPoints(req[w].pre.gam, u)

\* C20: every recorded repayment belongs to the borrower of the loan it names.
C20_RepaymentOwnedByBorrower ==
    \A row \in Range(repayments) :
        \A l \in loans : l.loan_id = row.loan_id => l.user_id = row.user_id

====
